---- MODULE Spec2Model ----
(***************************************************************************)
(* pwasm-abi: the legacy (Ethereum) ABI decoder and the selector-indexed   *)
(* dispatch table.                                                         *)
(*                                                                         *)
(* Representation.  A byte is a number in 0..255; a 32-byte word (Hash) is *)
(* a sequence of 32 bytes, so Rust's slice[i] is w[i+1] here.  TLC's       *)
(* integers are 32-bit signed, so a u32 is held as two 16-bit limbs        *)
(* <<hi, lo>> (value hi * 2^16 + lo) and a u64 as four 16-bit limbs, most  *)
(* significant first.  An i32 is its mathematical value; an i64 is its     *)
(* 64-bit two's-complement pattern in four limbs.                          *)
(***************************************************************************)
EXTENDS Integers, Sequences, FiniteSets, TLC

VARIABLES
    build,      \* how the crate was built: overflow checks, pointer width
    mode,       \* which entry point the run exercises
    table,      \* the Table: inner and fallback
    last,       \* the last table operation: its inputs, the callbacks' log, its result
    instance,   \* the contract instance an Endpoint wraps
    types,      \* decode's `types` argument
    data,       \* decode's `data` argument
    vals,       \* encode's argument
    out,        \* what decode returned
    word,       \* the 32-byte word handed to a scalar conversion
    wout,       \* what the scalar conversion returned
    native,     \* a native value, the ValueType made of it and the native value made of that
    named,      \* the NamedSignature being hashed
    keccak,     \* the Keccak sponge of NamedSignature::hash
    hashed      \* the HashSignature made of the NamedSignature

vars == <<build, mode, table, last, instance, types, data, vals, out, word, wout, native,
          named, keccak, hashed>>

(***************************************************************************)
(* Results.  Rust's Ok(v), Err(e) and a panic (an abort of the call).      *)
(***************************************************************************)
Ok(v) == [st |-> "Ok", val |-> v]

Err(e) == [st |-> "Err", err |-> e]

Panic == [st |-> "Panic"]

\* legacy::decode::Error is a unit struct: every decoder failure is this value.
DecodeError == Err("DecodeError")

None == [some |-> FALSE]

Some(v) == [some |-> TRUE, val |-> v]

(***************************************************************************)
(* Build parameters: arithmetic overflow panics when overflow checks are   *)
(* on and wraps otherwise; usize is 32 bits on wasm32, 64 on the host.     *)
(* An operator whose outcome depends on the build takes it as its first    *)
(* parameter b.                                                            *)
(***************************************************************************)
Builds == [overflow_checks : BOOLEAN, usize_bits : {32, 64}]

(***************************************************************************)
(* Bytes, words and fixed-width integers.                                  *)
(***************************************************************************)
Zeros(n) == [i \in 1..n |-> 0]

Fill(n, b) == [i \in 1..n |-> b]

RECURSIVE Flatten(_)
Flatten(ss) == IF ss = <<>> THEN <<>> ELSE Head(ss) \o Flatten(Tail(ss))

\* (b0 << 24) + (b1 << 16) + (b2 << 8) + b3 as a u32
U32Of(b0, b1, b2, b3) == <<b0 * 256 + b1, b2 * 256 + b3>>

\* the same over eight bytes, as a u64
U64Of(b) == <<b[1] * 256 + b[2], b[3] * 256 + b[4], b[5] * 256 + b[6], b[7] * 256 + b[8]>>

\* a u32 divided by 32, as usize (at most 2^27 - 1)
U32Div32(u) == u[1] * 2048 + (u[2] \div 32)

\* k < u for a small natural k and a u32 u
U32Above(u, k) == IF u[1] >= 32768 THEN TRUE ELSE u[1] * 65536 + u[2] > k

\* a u32 below 2^31 as a number
U32Small(u) == u[1] * 65536 + u[2]

\* `x as i32` of a u32: the same 32 bits read as two's complement
AsI32(u) == IF u[1] >= 32768 THEN (u[1] - 65536) * 65536 + u[2] ELSE u[1] * 65536 + u[2]

MinI32 == (-2147483647) - 1

\* two's-complement negation of a 64-bit pattern (wrapping)
RECURSIVE NegLimbs(_)
NegLimbs(u) ==
    IF u = <<>> THEN <<>>
    ELSE LET n == Len(u)
             lowzero == \A i \in 2..n : u[i] = 0
         IN  IF lowzero THEN <<(65536 - u[1]) % 65536>> \o SubSeq(u, 2, n)
             ELSE <<65535 - u[1]>> \o NegLimbs(SubSeq(u, 2, n))

MinI64 == <<32768, 0, 0, 0>>

(***************************************************************************)
(* ParamType and ValueType (eth/value_type.rs).  A ParamType is            *)
(* [tag |-> "U32"] ... or [tag |-> "Array", inner |-> T]; a ValueType is   *)
(* [tag |-> "U32", v |-> x].  Bytes and String hold their bytes, Array its *)
(* sequence of values.                                                     *)
(***************************************************************************)
PT(t) == [tag |-> t]

ArrayOf(t) == [tag |-> "Array", inner |-> t]

ValueType(t, x) == [tag |-> t, v |-> x]

(***************************************************************************)
(* legacy/decode.rs                                                        *)
(***************************************************************************)

\* Rust's `?` and try!: go on with the value of an Ok, return anything else.
Try(r, F(_)) == IF r.st = "Ok" THEN F(r.val) ELSE r

\* slice_data cutting the input into whole words and dropping the rest
slice_data_floor(d) ==
    Ok([i \in 1..(Len(d) \div 32) |-> SubSeq(d, 32 * (i - 1) + 1, 32 * (i - 1) + 32)])

slice_data(d) ==
    IF Len(d) % 32 # 0 THEN DecodeError
    ELSE Ok([i \in 1..(Len(d) \div 32) |-> SubSeq(d, 32 * (i - 1) + 1, 32 * (i - 1) + 32)])

pad_u32(value) ==
    [i \in 1..32 |->
        CASE i = 29 -> value[1] \div 256
          [] i = 30 -> value[1] % 256
          [] i = 31 -> value[2] \div 256
          [] i = 32 -> value[2] % 256
          [] OTHER  -> 0]

\* pad_i32: an i32 right aligned in 32 bytes, 0xff-filled when negative.
\* (value >> k) as u8 of a negative value is a byte of its two's complement.
pad_i32(value) ==
    IF value >= 0 THEN pad_u32(<<value \div 65536, value % 65536>>)
    ELSE [i \in 1..32 |->
            CASE i = 29 -> ((value \div 65536) + 65536) \div 256
              [] i = 30 -> ((value \div 65536) + 65536) % 256
              [] i = 31 -> (value % 65536) \div 256
              [] i = 32 -> (value % 65536) % 256
              [] OTHER  -> 255]

\* as_u32 checking one byte too few: slice[..27]
as_u32_short(slice) ==
    IF ~(\A i \in 1..27 : slice[i] = 0) THEN DecodeError
    ELSE Ok(U32Of(slice[29], slice[30], slice[31], slice[32]))

as_u32(slice) ==
    IF ~(\A i \in 1..28 : slice[i] = 0) THEN DecodeError
    ELSE Ok(U32Of(slice[29], slice[30], slice[31], slice[32]))

\* -(result as i32): the negation overflows for the minimum value
NegI32(b, result) ==
    IF result = MinI32 THEN (IF b.overflow_checks THEN Panic ELSE Ok(result))
    ELSE Ok(-result)

as_i32(b, slice) ==
    IF ~(slice[1] >= 128)                                   \* slice[0] & 0x80 == 0
    THEN Try(as_u32(slice), LAMBDA r : Ok(AsI32(r)))
    ELSE IF ~(\A i \in 2..28 : slice[i] = 255) THEN DecodeError
    ELSE NegI32(b, AsI32(U32Of(slice[29], slice[30], slice[31], slice[32])))

as_u64(slice) ==
    IF ~(\A i \in 1..24 : slice[i] = 0) THEN DecodeError
    ELSE Ok(U64Of(SubSeq(slice, 25, 32)))

\* -(result as i64) on the 64-bit pattern
NegI64(b, result) ==
    IF result = MinI64 THEN (IF b.overflow_checks THEN Panic ELSE Ok(result))
    ELSE Ok(NegLimbs(result))

as_i64(b, slice) ==
    IF ~(slice[1] >= 128) THEN as_u64(slice)                \* `as i64` keeps the 64 bits
    ELSE IF ~(\A i \in 2..28 : slice[i] = 255) THEN DecodeError
    ELSE NegI64(b, U64Of(SubSeq(slice, 25, 32)))

as_bool(slice) ==
    IF ~(\A i \in 1..31 : slice[i] = 0) THEN DecodeError
    ELSE Ok(slice[32] = 1)

\* slices.get(position): position counts from 0
peek(slices, position) ==
    IF position < Len(slices) THEN Ok(slices[position + 1]) ELSE DecodeError

\* (len + 31) / 32 in usize arithmetic: the sum overflows a 32-bit usize when
\* len > 2^32 - 32.  Ok(number of words) or Panic.
SlicesLen(b, len) ==
    IF b.usize_bits = 32 /\ len[1] = 65535 /\ len[2] >= 65505
    THEN (IF b.overflow_checks THEN Panic ELSE Ok((len[2] + 31 - 65536) \div 32))
    ELSE Ok(len[1] * 2048 + ((len[2] + 31) \div 32))

\* .take(len) of the bytes of the words taken
TakeLen(all, len) ==
    SubSeq(all, 1, IF U32Above(len, Len(all)) THEN Len(all) ELSE U32Small(len))

\* The loop peeks position, position + 1, ..., position + slices_len - 1 and
\* fails at the first word that is missing; with slices_len = 0 it peeks
\* nothing, whatever the position.  The bytes are the first `len` of the words
\* taken.
take_bytes(b, slices, position, len) ==
    Try(SlicesLen(b, len), LAMBDA slices_len :
        IF slices_len > 0 /\ position + slices_len > Len(slices) THEN DecodeError
        ELSE Ok([bytes |-> TakeLen(Flatten(SubSeq(slices, position + 1, position + slices_len)), len),
                 new_offset |-> position + slices_len]))

\* String::from_utf8 accepts exactly the well-formed UTF-8 byte sequences
\* (Unicode, table 3-7): no overlong forms, no surrogates, nothing above U+10FFFF.
In(x, lo, hi) == lo <= x /\ x <= hi

Cont(bytes, j) == j <= Len(bytes) /\ In(bytes[j], 128, 191)

Second(bytes, j, lo, hi) == j <= Len(bytes) /\ In(bytes[j], lo, hi)

\* the length of the well-formed sequence that starts at byte i, or 0
Utf8Len(bytes, i) ==
    CASE bytes[i] <= 127 -> 1
      [] In(bytes[i], 194, 223) -> IF Cont(bytes, i + 1) THEN 2 ELSE 0
      [] In(bytes[i], 224, 239) ->
            IF /\ Second(bytes, i + 1, IF bytes[i] = 224 THEN 160 ELSE 128,
                                       IF bytes[i] = 237 THEN 159 ELSE 191)
               /\ Cont(bytes, i + 2)
            THEN 3 ELSE 0
      [] In(bytes[i], 240, 244) ->
            IF /\ Second(bytes, i + 1, IF bytes[i] = 240 THEN 144 ELSE 128,
                                       IF bytes[i] = 244 THEN 143 ELSE 191)
               /\ Cont(bytes, i + 2)
               /\ Cont(bytes, i + 3)
            THEN 4 ELSE 0
      [] OTHER -> 0

RECURSIVE is_utf8(_, _)
is_utf8(bytes, i) ==
    IF i > Len(bytes) THEN TRUE
    ELSE IF Utf8Len(bytes, i) = 0 THEN FALSE
    ELSE is_utf8(bytes, i + Utf8Len(bytes, i))

from_utf8(bytes) == IF is_utf8(bytes, 1) THEN Ok(bytes) ELSE DecodeError

\* The variant decode_param builds for a one-word ParamType.  ParamType::H256
\* builds ValueType::U256 (decode.rs line 255).
StaticVariant(tag) == IF tag = "H256" THEN "U256" ELSE tag

\* the one-word conversions of decode_param: word -> Result<value>
StaticValue(b, tag, slice) ==
    CASE tag = "Address" -> Ok(SubSeq(slice, 13, 32))
      [] tag = "U32"     -> as_u32(slice)
      [] tag = "U64"     -> as_u64(slice)
      [] tag = "I32"     -> as_i32(b, slice)
      [] tag = "I64"     -> as_i64(b, slice)
      [] tag = "U256"    -> Ok(slice)
      [] tag = "H256"    -> Ok(slice)
      [] tag = "Bool"    -> as_bool(slice)

\* the head of a dynamic parameter with the offset word counted from the head
\* word itself instead of the start of the input
DynamicHead_relative(slices, offset) ==
    Try(peek(slices, offset), LAMBDA offset_slice :
    Try(as_u32(offset_slice), LAMBDA o :
    Try(peek(slices, U32Div32(o) + offset), LAMBDA len_slice :
    Try(as_u32(len_slice), LAMBDA len :
    Ok([len_offset |-> U32Div32(o) + offset, len |-> len])))))

\* The head of a dynamic parameter: the offset word at `offset`, divided by 32,
\* is the index of the length word; Ok([len_offset, len]) or the error.
DynamicHead(slices, offset) ==
    Try(peek(slices, offset), LAMBDA offset_slice :
    Try(as_u32(offset_slice), LAMBDA o :
    Try(peek(slices, U32Div32(o)), LAMBDA len_slice :
    Try(as_u32(len_slice), LAMBDA len :
    Ok([len_offset |-> U32Div32(o), len |-> len])))))

DecodeResult(token, new_offset) == Ok([token |-> token, new_offset |-> new_offset])

RECURSIVE decode_param(_, _, _, _)
RECURSIVE decode_elements(_, _, _, _, _, _, _)

\* the loop `for _ in 0..len` of the Array arm: i elements are decoded so far
decode_elements(b, t, slices, len, i, new_offset, tokens) ==
    IF ~U32Above(len, i) THEN Ok(tokens)
    ELSE Try(decode_param(b, t, slices, new_offset), LAMBDA res :
             decode_elements(b, t, slices, len, i + 1, res.new_offset, Append(tokens, res.token)))

decode_param(b, param, slices, offset) ==
    CASE param.tag = "Bytes" ->
            Try(DynamicHead(slices, offset), LAMBDA h :
            Try(take_bytes(b, slices, h.len_offset + 1, h.len), LAMBDA taken :
            DecodeResult(ValueType("Bytes", taken.bytes), offset + 1)))
      [] param.tag = "String" ->
            Try(DynamicHead(slices, offset), LAMBDA h :
            Try(take_bytes(b, slices, h.len_offset + 1, h.len), LAMBDA taken :
            Try(from_utf8(taken.bytes), LAMBDA str :
            DecodeResult(ValueType("String", str), offset + 1))))
      [] param.tag = "Array" ->
            Try(DynamicHead(slices, offset), LAMBDA h :
            Try(decode_elements(b, param.inner, slices, h.len, 0, h.len_offset + 1, <<>>),
                LAMBDA tokens :
            DecodeResult(ValueType("Array", tokens), offset + 1)))
      [] OTHER ->
            Try(peek(slices, offset), LAMBDA slice :
            Try(StaticValue(b, param.tag, slice), LAMBDA x :
            DecodeResult(ValueType(StaticVariant(param.tag), x), offset + 1)))

\* the loop of decode over `types`, from parameter k (1-based) at head word `offset`
RECURSIVE decode_from(_, _, _, _, _, _)
decode_from(b, tys, slices, k, offset, tokens) ==
    IF k > Len(tys) THEN Ok(tokens)
    ELSE Try(decode_param(b, tys[k], slices, offset), LAMBDA res :
             decode_from(b, tys, slices, k + 1, res.new_offset, Append(tokens, res.token)))

decode(b, tys, d) ==
    Try(slice_data(d), LAMBDA slices : decode_from(b, tys, slices, 1, 0, <<>>))

(***************************************************************************)
(* The encoder (legacy/encode.rs), after the specification's section 4.3:  *)
(* one head word per value, then the tails in order; the head word of a    *)
(* dynamic value is (head_words + tail_words_so_far) * 32.  Inside an      *)
(* Array the count goes on from the start of the whole encoding, which is  *)
(* the layout of the nested arrays in decode.rs's own tests (lines 428 to  *)
(* 482) and the one section 4.2 reads back.                                *)
(***************************************************************************)
IsDynamic(v) == v.tag \in {"Bytes", "String", "Array"}

\* a natural number below 2^31 as a u32
ToU32(n) == <<n \div 65536, n % 65536>>

\* 16-bit limbs right aligned in 32 bytes behind `fill` bytes
pad_limbs(fill, limbs) ==
    [i \in 1..32 |->
        IF i <= 32 - 2 * Len(limbs) THEN fill
        ELSE IF (i - (32 - 2 * Len(limbs))) % 2 = 1
             THEN limbs[((i - (32 - 2 * Len(limbs)) - 1) \div 2) + 1] \div 256
             ELSE limbs[((i - (32 - 2 * Len(limbs)) - 1) \div 2) + 1] % 256]

encode_static(v) ==
    CASE v.tag = "U32"     -> pad_u32(v.v)
      [] v.tag = "I32"     -> pad_i32(v.v)
      [] v.tag = "U64"     -> pad_limbs(0, v.v)
      [] v.tag = "I64"     -> pad_limbs(IF v.v[1] >= 32768 THEN 255 ELSE 0, v.v)
      [] v.tag = "U256"    -> v.v
      [] v.tag = "H256"    -> v.v
      [] v.tag = "Address" -> Zeros(12) \o v.v
      [] v.tag = "Bool"    -> Zeros(31) \o <<IF v.v THEN 1 ELSE 0>>

\* a byte sequence of whole words, as words
Chunks(padded) == [i \in 1..(Len(padded) \div 32) |-> SubSeq(padded, 32 * (i - 1) + 1, 32 * i)]

\* bytes right-padded with zeros to whole words, as words
pad_bytes(bytes) == Chunks(bytes \o Zeros(32 * ((Len(bytes) + 31) \div 32) - Len(bytes)))

RECURSIVE encode_from(_, _, _, _, _)

\* the tail record of a dynamic value whose length word is word `at` of the
\* encoding: the length word, then the payload
encode_tail(v, at) ==
    IF v.tag = "Array"
    THEN <<pad_u32(ToU32(Len(v.v)))>> \o encode_from(v.v, 1, at + 1, <<>>, <<>>)
    ELSE <<pad_u32(ToU32(Len(v.v)))>> \o pad_bytes(v.v)

\* heads and tails of values[k..]; the head of this list starts at word `start`
encode_from(values, k, start, heads, tails) ==
    IF k > Len(values) THEN heads \o tails
    ELSE IF IsDynamic(values[k])
    THEN encode_from(values, k + 1, start,
                     Append(heads, pad_u32(ToU32(32 * (start + Len(values) + Len(tails))))),
                     tails \o encode_tail(values[k], start + Len(values) + Len(tails)))
    ELSE encode_from(values, k + 1, start, Append(heads, encode_static(values[k])), tails)

encode_words(values) == encode_from(values, 1, 0, <<>>, <<>>)

encode(values) == Flatten(encode_words(values))

(***************************************************************************)
(* Signature (eth/signature.rs), after the specification's section 4.4:    *)
(* [params |-> sequence of ParamType, result |-> Option<ParamType>].       *)
(***************************************************************************)
Signature(params, result) == [params |-> params, result |-> result]

RECURSIVE Matches(_, _)
Matches(v, t) ==
    /\ v.tag = t.tag
    /\ v.tag = "Array" => \A i \in 1..Len(v.v) : Matches(v.v[i], t.inner)

MatchesAll(values, params) ==
    /\ Len(values) = Len(params)
    /\ \A i \in 1..Len(values) : Matches(values[i], params[i])

\* a decode failure where the caller takes the values themselves
OrPanic(r) == IF r.st = "Ok" THEN r ELSE Panic

\* decode_invoke returns the values themselves (dispatch.rs line 69 hands them
\* to the handler): a payload that does not decode aborts the call.
decode_invoke(b, sig, payload) == OrPanic(decode(b, sig.params, payload))

\* encode_invoke returns the bytes themselves (dispatch.rs line 97): it asserts
\* that every value's variant is the declared one.
encode_invoke(sig, args) ==
    IF MatchesAll(args, sig.params) THEN Ok(encode(args)) ELSE Panic

encode_result(sig, result) ==
    IF ~sig.result.some THEN Ok(<<>>)
    ELSE IF ~result.some THEN Err("EncodeError")
    ELSE IF ~Matches(result.val, sig.result.val) THEN Err("EncodeError")
    ELSE Ok(encode(<<result.val>>))

decode_result(b, sig, payload) ==
    IF ~sig.result.some THEN Ok(None)
    ELSE Try(decode(b, <<sig.result.val>>, payload), LAMBDA r : Ok(Some(r[1])))

(***************************************************************************)
(* eth/dispatch.rs: HashSignature and Table.  A table is                   *)
(* [inner |-> sequence of HashSignature, fallback |-> Option<Signature>].  *)
(* A callback (the handler d of dispatch and fallback_dispatch, the        *)
(* transport d of call) is modelled by the value it returns; every         *)
(* operation yields its result together with the log of the calls it made  *)
(* to its callback.                                                        *)
(***************************************************************************)
HashSignature(hash, signature) == [hash |-> hash, signature |-> signature]

Table(in, fb) == [inner |-> in, fallback |-> fb]

\* BigEndian::read_u32(&payload[0..4])
read_u32(payload) == U32Of(payload[1], payload[2], payload[3], payload[4])

\* BigEndian::write_u32
write_u32(hash) == <<hash[1] \div 256, hash[1] % 256, hash[2] \div 256, hash[2] % 256>>

\* the index of the first entry with this hash, 0 when there is none
FirstIndex(in, method_id) ==
    IF \E i \in 1..Len(in) : in[i].hash = method_id
    THEN CHOOSE i \in 1..Len(in) :
            in[i].hash = method_id /\ \A j \in 1..(i - 1) : in[j].hash # method_id
    ELSE 0

\* self.inner.iter().find(|x| x.hash == method_id).ok_or(UnknownSignature)
hash_signature(self, method_id) ==
    IF FirstIndex(self.inner, method_id) = 0 THEN Err("UnknownSignature")
    ELSE Ok(self.inner[FirstIndex(self.inner, method_id)])

Outcome(result, calls) == [result |-> result, calls |-> calls]

\* an operation that ends before it calls its callback
Early(r) == Outcome(r, <<>>)

\* like Try, for an operation's outcome
TryOp(r, F(_)) == IF r.st = "Ok" THEN F(r.val) ELSE Early(r)

\* dispatch reading the selector least significant byte first
dispatch_le(b, self, payload, d) ==
    IF Len(payload) < 4 THEN Early(Err("NoLengthForSignature"))
    ELSE TryOp(hash_signature(self, U32Of(payload[4], payload[3], payload[2], payload[1])),
               LAMBDA hs :
         TryOp(decode_invoke(b, hs.signature, SubSeq(payload, 5, Len(payload))), LAMBDA args :
         Outcome(encode_result(hs.signature, d),
                 <<[method_id |-> U32Of(payload[4], payload[3], payload[2], payload[1]),
                    args |-> args]>>)))

\* dispatch without the length check: &payload[0..4] of a short payload panics
dispatch_unchecked(b, self, payload, d) ==
    IF Len(payload) < 4 THEN Early(Panic)
    ELSE TryOp(hash_signature(self, read_u32(payload)), LAMBDA hs :
         TryOp(decode_invoke(b, hs.signature, SubSeq(payload, 5, Len(payload))), LAMBDA args :
         Outcome(encode_result(hs.signature, d),
                 <<[method_id |-> read_u32(payload), args |-> args]>>)))

\* dispatch handing an unknown selector to the fallback signature
dispatch_or_fallback(b, self, payload, d) ==
    IF Len(payload) < 4 THEN Early(Err("NoLengthForSignature"))
    ELSE IF hash_signature(self, read_u32(payload)).st # "Ok" /\ self.fallback.some
    THEN TryOp(decode_invoke(b, self.fallback.val, SubSeq(payload, 5, Len(payload))),
               LAMBDA args :
         Outcome(Ok(<<>>), <<[method_id |-> read_u32(payload), args |-> args]>>))
    ELSE TryOp(hash_signature(self, read_u32(payload)), LAMBDA hs :
         TryOp(decode_invoke(b, hs.signature, SubSeq(payload, 5, Len(payload))), LAMBDA args :
         Outcome(encode_result(hs.signature, d),
                 <<[method_id |-> read_u32(payload), args |-> args]>>)))

dispatch(b, self, payload, d) ==
    IF Len(payload) < 4 THEN Early(Err("NoLengthForSignature"))
    ELSE TryOp(hash_signature(self, read_u32(payload)), LAMBDA hs :
         TryOp(decode_invoke(b, hs.signature, SubSeq(payload, 5, Len(payload))), LAMBDA args :
         Outcome(encode_result(hs.signature, d),
                 <<[method_id |-> read_u32(payload), args |-> args]>>)))

\* fallback_dispatch skipping four bytes, as dispatch does
fallback_dispatch_stripped(b, self, payload) ==
    IF self.fallback.some
    THEN IF Len(payload) < 4 THEN Early(Panic)
         ELSE TryOp(decode_invoke(b, self.fallback.val, SubSeq(payload, 5, Len(payload))),
                    LAMBDA args :
              Outcome(Ok(<<>>), <<[args |-> args]>>))
    ELSE Early(Err("NoFallback"))

\* fallback_dispatch that decodes and returns without calling the handler
fallback_dispatch_no_call(b, self, payload) ==
    IF self.fallback.some
    THEN TryOp(decode_invoke(b, self.fallback.val, payload), LAMBDA args :
         Outcome(Ok(<<>>), <<>>))
    ELSE Early(Err("NoFallback"))

fallback_dispatch(b, self, payload) ==
    IF self.fallback.some
    THEN TryOp(decode_invoke(b, self.fallback.val, payload), LAMBDA args :
         Outcome(Ok(<<>>), <<[args |-> args]>>))
    ELSE Early(Err("NoFallback"))

\* the reply of the transport, decoded
Reply(b, sig, d) == IF d.some THEN decode_result(b, sig, d.val) ELSE Ok(None)

\* call writing the selector least significant byte first
call_le(b, self, hash, args, d) ==
    TryOp(hash_signature(self, hash), LAMBDA hs :
    TryOp(encode_invoke(hs.signature, args), LAMBDA args_payload :
    Outcome(Reply(b, hs.signature, d),
            <<<<hash[2] % 256, hash[2] \div 256, hash[1] % 256, hash[1] \div 256>>
                \o args_payload>>)))

call(b, self, hash, args, d) ==
    TryOp(hash_signature(self, hash), LAMBDA hs :
    TryOp(encode_invoke(hs.signature, args), LAMBDA args_payload :
    Outcome(Reply(b, hs.signature, d), <<write_u32(hash) \o args_payload>>)))

\* push that inserts the entry in front of the existing ones
push_front(self, signature) == Table(<<signature>> \o self.inner, self.fallback)

\* self.inner.to_mut().push(signature.into())
push(self, signature) == Table(Append(self.inner, signature), self.fallback)

(***************************************************************************)
(* eth/value_type.rs: conversions between native values and ValueType.  A *)
(* native value is given with its Rust type; U256, H256 and [u8; 32] are  *)
(* 32 bytes, Address is 20 bytes, Vec<u8> a sequence of bytes.             *)
(***************************************************************************)
\* impl From<bool>, From<u32>, From<U256>, From<H256>, From<Address>, From<Vec<u8>>
\* for ValueType
into_value(ty, x) ==
    CASE ty = "bool"    -> ValueType("Bool", x)
      [] ty = "u32"     -> ValueType("U32", x)
      [] ty = "U256"    -> ValueType("H256", x)
      [] ty = "H256"    -> ValueType("H256", x)
      [] ty = "Address" -> ValueType("Address", x)
      [] ty = "Vec<u8>" -> ValueType("Bytes", x)

\* the variants From<ValueType> for the native type accepts; any other panics
Accepted(ty) ==
    CASE ty = "bool"     -> {"Bool"}
      [] ty = "u32"      -> {"U32"}
      [] ty = "U256"     -> {"U256"}
      [] ty = "H256"     -> {"H256"}
      [] ty = "[u8; 32]" -> {"U256", "H256"}
      [] ty = "Address"  -> {"Address"}
      [] ty = "Vec<u8>"  -> {"Bytes"}

\* impl From<ValueType> for u32, bool, [u8; 32], U256, H256, Address and
\* Into<Vec<u8>> for ValueType
from_value(ty, val) == IF val.tag \in Accepted(ty) THEN Ok(val.v) ELSE Panic

\* ty_to_param_type of derive/src/utils.rs, for the native types above
ty_to_param_type(ty) ==
    CASE ty = "bool"    -> PT("Bool")
      [] ty = "u32"     -> PT("U32")
      [] ty = "U256"    -> PT("U256")
      [] ty = "H256"    -> PT("H256")
      [] ty = "Address" -> PT("Address")
      [] ty = "Vec<u8>" -> PT("Bytes")

(***************************************************************************)
(* The Endpoint generated for the TokenContract of tests/src/erc20.rs: its *)
(* table has the ctor signature as fallback, and dispatch_ctor hands the   *)
(* payload to fallback_dispatch with a handler that converts the argument  *)
(* and calls ctor(&mut self, total_supply: U256) of the wrapped instance.  *)
(***************************************************************************)
\* TokenContract::ctor of Instance: self.total_supply = total_supply
ctor(self, total_supply) == [self EXCEPT !.total_supply = total_supply]

CtorOutcome(result, calls, inst) == [result |-> result, calls |-> calls, instance |-> inst]

\* the handler on the values of fallback_dispatch: the constructor is called
\* when the argument converts
CtorHandler(inst, args) ==
    IF Len(args) # 1 THEN CtorOutcome(Panic, <<>>, inst)
    ELSE IF from_value("U256", args[1]).st # "Ok" THEN CtorOutcome(Panic, <<>>, inst)
    ELSE CtorOutcome(Ok(<<>>), <<[args |-> args]>>, ctor(inst, from_value("U256", args[1]).val))

\* the error of fallback_dispatch is unwrapped: any failure aborts the call
CtorAfter(o, inst) ==
    IF o.result.st # "Ok" \/ o.calls = <<>> THEN CtorOutcome(Panic, <<>>, inst)
    ELSE CtorHandler(inst, o.calls[1].args)

dispatch_ctor(b, self, inst, payload) == CtorAfter(fallback_dispatch(b, self, payload), inst)

(***************************************************************************)
(* NamedSignature::hash and From<NamedSignature> for HashSignature: the    *)
(* selector.  A string is the sequence of its bytes (ASCII).               *)
(***************************************************************************)
NamedSignature(name, signature) == [name |-> name, signature |-> signature]

\* ParamType::to_member: the member string of a parameter type
RECURSIVE to_member(_)
to_member(p) ==
    CASE p.tag = "U32"     -> <<117, 105, 110, 116, 51, 50>>            \* "uint32"
      [] p.tag = "I32"     -> <<105, 110, 116, 51, 50>>                 \* "int32"
      [] p.tag = "U64"     -> <<117, 105, 110, 116, 54, 52>>            \* "uint64"
      [] p.tag = "I64"     -> <<105, 110, 116, 54, 52>>                 \* "int64"
      [] p.tag = "U256"    -> <<117, 105, 110, 116, 50, 53, 54>>        \* "uint256"
      [] p.tag = "H256"    -> <<117, 105, 110, 116, 50, 53, 54>>        \* "uint256"
      [] p.tag = "Address" -> <<97, 100, 100, 114, 101, 115, 115>>       \* "address"
      [] p.tag = "Bool"    -> <<98, 111, 111, 108>>                      \* "bool"
      [] p.tag = "Bytes"   -> <<98, 121, 116, 101, 115>>                \* "bytes"
      [] p.tag = "String"  -> <<115, 116, 114, 105, 110, 103>>           \* "string"
      [] p.tag = "Array"   -> to_member(p.inner) \o <<91, 93>>               \* T "[]"

\* the loop of hash with a ',' pushed after every parameter, the last included
RECURSIVE push_members_comma(_, _, _)
push_members_comma(params, i, signature_str) ==
    IF i >= Len(params) THEN signature_str
    ELSE push_members_comma(params, i + 1, signature_str \o to_member(params[i + 1]) \o <<44>>)

\* the loop of hash over params().iter().enumerate(), from index i:
\* p.to_member(&mut signature_str); if i != len - 1 { signature_str.push(',') }
RECURSIVE push_members(_, _, _)
push_members(params, i, signature_str) ==
    IF i >= Len(params) THEN signature_str
    ELSE push_members(params, i + 1,
            signature_str \o to_member(params[i + 1])
                \o (IF i # Len(params) - 1 THEN <<44>> ELSE <<>>))

\* name, '(', the members, ')'
signature_str(self) == push_members(self.signature.params, 0, self.name \o <<40>>) \o <<41>>

(***************************************************************************)
(* Keccak::new_keccak256, update, finalize.  The sponge state is 1600 bits *)
(* st[1..1600]: bit z (0 the least significant) of lane (x, y) is          *)
(* st[64 * (x + 5 * y) + z + 1], so byte i of the state is bits 8 * i + 1  *)
(* to 8 * i + 8.                                                           *)
(***************************************************************************)
\* the rate of keccak-256 in bytes
Rate == 136

Rounds == 24

\* the rotation offset of lane (x, y), at x + 5 * y + 1
RhoOffsets ==
    <<0, 1, 62, 28, 27, 36, 44, 6, 55, 20, 3, 10, 43, 25, 39, 41, 45, 15, 21, 8, 18, 2, 61, 56, 14>>

\* the round constants, each as the set of its one bits
RoundConstants ==
    << {0}, {1, 7, 15}, {1, 3, 7, 15, 63}, {15, 31, 63}, {0, 1, 3, 7, 15}, {0, 31},
       {0, 7, 15, 31, 63}, {0, 3, 15, 63}, {1, 3, 7}, {3, 7}, {0, 3, 15, 31}, {1, 3, 31},
       {0, 1, 3, 7, 15, 31}, {0, 1, 3, 7, 63}, {0, 3, 7, 15, 63}, {0, 1, 15, 63},
       {1, 15, 63}, {7, 63}, {1, 3, 15}, {1, 3, 31, 63}, {0, 7, 15, 31, 63}, {7, 15, 63},
       {0, 31}, {3, 15, 31, 63} >>

Xor(a, b) == (a + b) % 2

LaneBit(A, x, y, z) == A[64 * (x + 5 * y) + z + 1]

\* theta: the parity of column x, and the word xored into every lane of column x
ThetaC(A, x, z) ==
    (LaneBit(A, x, 0, z) + LaneBit(A, x, 1, z) + LaneBit(A, x, 2, z) + LaneBit(A, x, 3, z)
        + LaneBit(A, x, 4, z)) % 2

ThetaD(A, x, z) == Xor(ThetaC(A, (x + 4) % 5, z), ThetaC(A, (x + 1) % 5, (z + 63) % 64))

Theta(A, x, y, z) == Xor(LaneBit(A, x, y, z), ThetaD(A, x, z))

\* rho and pi: lane (u, v) after them is lane (x, y) = ((u + 3v) % 5, u) rotated left
RhoPi(A, u, v, z) ==
    Theta(A, (u + 3 * v) % 5, u, (z + 64 - RhoOffsets[((u + 3 * v) % 5) + 5 * u + 1]) % 64)

Chi(A, x, y, z) ==
    Xor(RhoPi(A, x, y, z), (1 - RhoPi(A, (x + 1) % 5, y, z)) * RhoPi(A, (x + 2) % 5, y, z))

\* round r (1..24) of keccak-f[1600]: theta, rho, pi, chi, iota
KeccakRound(A, r) ==
    [j \in 1..1600 |->
        IF j <= 64 /\ (j - 1) \in RoundConstants[r]
        THEN 1 - Chi(A, 0, 0, j - 1)
        ELSE Chi(A, ((j - 1) \div 64) % 5, (j - 1) \div 320, (j - 1) % 64)]

\* the message padded to whole blocks: 0x01, zeros, and 0x80 on the last byte
PadLen(m) == Rate * ((Len(m) \div Rate) + 1)

KeccakPad(m) ==
    [i \in 1..PadLen(m) |->
        IF i <= Len(m) THEN m[i]
        ELSE (IF i = Len(m) + 1 THEN 1 ELSE 0) + (IF i = PadLen(m) THEN 128 ELSE 0)]

\* a block of Rate bytes xored into the first 8 * Rate bits of the state
KeccakAbsorb(A, block) ==
    [j \in 1..1600 |->
        IF j <= 8 * Rate
        THEN Xor(A[j], (block[((j - 1) \div 8) + 1] \div (2 ^ ((j - 1) % 8))) % 2)
        ELSE A[j]]

\* byte i (0-based) of the state
StateByte(A, i) ==
    A[8 * i + 1] + 2 * A[8 * i + 2] + 4 * A[8 * i + 3] + 8 * A[8 * i + 4] + 16 * A[8 * i + 5]
        + 32 * A[8 * i + 6] + 64 * A[8 * i + 7] + 128 * A[8 * i + 8]

\* finalize: the 32 bytes of the digest
KeccakSqueeze(A) == [i \in 1..32 |-> StateByte(A, i - 1)]

\* From<NamedSignature> for HashSignature, given the H256 of named.hash()
IntoHashSignature(hash, signature) == HashSignature(read_u32(SubSeq(hash, 1, 4)), signature)

(***************************************************************************)
(* Inputs of the table operations.                                         *)
(***************************************************************************)
MaxTable == 2

\* the word of a small number
W(n) == pad_u32(ToU32(n))

\* word w with byte i (0-based) set to x
WithByte(w, i, x) == [w EXCEPT ![i + 1] = x]

Sel1 == <<52685, 30656>>          \* 0xcdcd77c0, baz(uint32,bool)
Sel2 == <<49271, 52685>>          \* 0xc077cdcd, the bytes of Sel1 reversed
Sel3 == <<0, 1>>                  \* 0x00000001, never pushed

SigBaz == Signature(<<PT("U32"), PT("Bool")>>, None)
SigGet == Signature(<<PT("Bytes")>>, Some(PT("U32")))
SigCtor == Signature(<<PT("U256")>>, None)

Entries == {HashSignature(h, sg) : h \in {Sel1, Sel2}, sg \in {SigBaz, SigGet}}

BodyBaz == W(69) \o W(1)
BodyBytes == W(32) \o W(2) \o (<<18, 52>> \o Zeros(30))
BodyCtor == WithByte(W(0), 0, 1)

Bodies ==
    { <<>>,                                         \* no head word at all
      BodyBaz,
      W(69) \o WithByte(W(1), 0, 1),                \* malformed Bool word
      WithByte(W(69), 27, 1) \o W(1),               \* malformed U32 word
      BodyBaz \o <<0>>,                             \* not a multiple of 32
      BodyBytes,
      W(64) \o W(2),                                \* offset beyond the input
      W(32) \o W(33) \o Zeros(32),                  \* length beyond the input
      BodyCtor }

Payloads ==
    {<<>>, <<205>>, <<205, 205, 119>>}
        \cup {write_u32(h) \o body : h \in {Sel1, Sel2, Sel3}, body \in Bodies}

HandlerReturns == {None, Some(ValueType("U32", <<0, 7>>))}

CallArgs ==
    { <<ValueType("U32", <<0, 69>>), ValueType("Bool", TRUE)>>,
      <<ValueType("Bytes", <<18, 52>>)>> }

Replies == {None, Some(W(5)), Some(WithByte(W(5), 0, 1))}

\* Instance::default() of the erc20 test: total_supply is U256::zero()
DefaultInstance == [total_supply |-> Zeros(32)]

NoOp ==
    [op |-> "none", payload |-> <<>>, hash |-> Sel3, args |-> <<>>, d |-> None,
     before |-> Table(<<>>, None), inst |-> DefaultInstance, result |-> Ok(<<>>),
     calls |-> <<>>]

(***************************************************************************)
(* Inputs of the selector derivation.                                      *)
(***************************************************************************)
NameBaz == <<98, 97, 122>>                                  \* "baz"

NameSam == <<115, 97, 109>>                                 \* "sam"

NameTransfer == <<116, 114, 97, 110, 115, 102, 101, 114>>    \* "transfer"

\* a name longer than one block of the sponge
NameLong == Fill(140, 97)                                       \* "aaa...a"

SamParams == <<PT("Bytes"), PT("Bool"), ArrayOf(PT("U256"))>>

NamedSignatures ==
    { NamedSignature(NameBaz, SigBaz),
      NamedSignature(NameSam, Signature(SamParams, None)),
      NamedSignature(NameSam, Signature(SamParams, Some(PT("U32")))),
      NamedSignature(<<98, 97, 108, 97, 110, 99, 101, 79, 102>>,   \* "balanceOf"
                      Signature(<<PT("Address")>>, Some(PT("U256")))),
      NamedSignature(<<116, 111, 116, 97, 108, 83, 117, 112, 112, 108, 121>>,   \* "totalSupply"
                      Signature(<<>>, Some(PT("U256")))),
      NamedSignature(NameTransfer, Signature(<<PT("Address"), PT("U256")>>, Some(PT("Bool")))),
      NamedSignature(NameTransfer, Signature(<<PT("Address"), PT("H256")>>, Some(PT("Bool")))),
      NamedSignature(<<102>>,                                      \* "f"
                      Signature(<<PT("I32"), PT("U64"), PT("I64"), PT("String"),
                                        ArrayOf(ArrayOf(PT("Address")))>>, None)),
      NamedSignature(NameLong, Signature(<<>>, None)) }

(***************************************************************************)
(* Inputs of the codec.                                                    *)
(***************************************************************************)
MaxWords == 3

MaxValues == 2

\* Words for the scalar conversions: a base pattern, one byte of it replaced.
BaseWords ==
    { Zeros(32),
      Fill(32, 255),
      Zeros(24) \o <<1, 2, 3, 4, 5, 6, 7, 8>>,
      Fill(24, 255) \o <<1, 2, 3, 4, 5, 6, 7, 8>>,
      Fill(28, 255) \o <<128, 0, 0, 0>>,
      Fill(24, 255) \o <<128, 0, 0, 0, 0, 0, 0, 0>> }

Words == BaseWords \cup {WithByte(w, i, x) : w \in BaseWords, i \in 0..31, x \in {0, 1, 2, 127, 128, 254, 255}}

ParamTypes ==
    {PT(t) : t \in {"U32", "I32", "U64", "I64", "U256", "H256", "Address", "Bool", "Bytes", "String"}}
        \cup {ArrayOf(PT("U32")), ArrayOf(PT("Bytes")), ArrayOf(ArrayOf(PT("Address")))}

PairTypes == {PT("U32"), PT("Bool"), PT("Bytes"), ArrayOf(PT("U32"))}

TypeLists == {<<>>} \cup {<<t>> : t \in ParamTypes} \cup {<<t, u>> : t \in PairTypes, u \in PairTypes}

Huge == Zeros(28) \o <<255, 255, 255, 255>>      \* the u32 2^32 - 1

DataWords == {W(0), W(1), W(32), W(64), WithByte(W(32), 27, 1), Huge}

RECURSIVE SeqsUpTo(_, _)
SeqsUpTo(S, n) ==
    IF n = 0 THEN {<<>>}
    ELSE SeqsUpTo(S, n - 1) \cup {Append(q, x) : q \in {p \in SeqsUpTo(S, n - 1) : Len(p) = n - 1}, x \in S}

\* every input of at most MaxWords words, whole or with one byte too many
Datas == {Flatten(ws) \o extra : ws \in SeqsUpTo(DataWords, MaxWords), extra \in {<<>>, <<0>>}}

Addr == Fill(20, 17)

\* the word of an address of twenty equal bytes
A(x) == Zeros(12) \o Fill(20, x)

Bytes31 == <<16>> \o Zeros(29) \o <<2>>

\* Inputs with several offset words: the encodings of the tests
\* decode_dynamic_array_of_dynamic_arrays and decode_two_bytes, the same with
\* the offsets exchanged, equal, or counted from the element area, and lists
\* with a dynamic value behind a static one and at nesting depth three.
OffsetInputs ==
    { [types |-> <<ArrayOf(ArrayOf(PT("Address")))>>,
       data |-> Flatten(<<W(32), W(2), W(o1), W(o2), W(1), A(17), W(1), A(34)>>)]
        : o1 \in {64, 128, 192}, o2 \in {128, 192} }
    \cup
    { [types |-> <<PT("Bytes"), PT("Bytes")>>,
       data |-> Flatten(<<W(o1), W(o2), W(31), Bytes31 \o <<0>>, W(32), <<0>> \o Bytes31>>)]
        : o1 \in {64, 128}, o2 \in {64, 96, 128} }
    \cup
    { [types |-> <<PT("U32"), ArrayOf(PT("Bytes"))>>,
       data |-> Flatten(<<W(7), W(64), W(2), W(o1), W(224), W(1), A(17), W(2), A(34)>>)]
        : o1 \in {64, 160} }
    \cup
    { [types |-> <<ArrayOf(ArrayOf(ArrayOf(PT("U32"))))>>,
       data |-> Flatten(<<W(32), W(1), W(96), W(1), W(o1), W(2), W(5), W(6)>>)]
        : o1 \in {32, 160} }

\* well-typed values, each with its ParamType
TypedValues ==
   << [t |-> PT("U32"), v |-> ValueType("U32", <<0, 69>>)],
      [t |-> PT("U32"), v |-> ValueType("U32", <<65535, 65535>>)],
      [t |-> PT("I32"), v |-> ValueType("I32", 5)],
      [t |-> PT("I32"), v |-> ValueType("I32", -1)],
      [t |-> PT("U64"), v |-> ValueType("U64", <<32768, 0, 0, 1>>)],
      [t |-> PT("I64"), v |-> ValueType("I64", <<0, 0, 0, 9>>)],
      [t |-> PT("I64"), v |-> ValueType("I64", <<65535, 65535, 65535, 65534>>)],
      [t |-> PT("U256"), v |-> ValueType("U256", BodyCtor)],
      [t |-> PT("H256"), v |-> ValueType("H256", Fill(32, 17))],
      [t |-> PT("Address"), v |-> ValueType("Address", Addr)],
      [t |-> PT("Bool"), v |-> ValueType("Bool", TRUE)],
      [t |-> PT("Bool"), v |-> ValueType("Bool", FALSE)],
      [t |-> PT("Bytes"), v |-> ValueType("Bytes", <<>>)],
      [t |-> PT("Bytes"), v |-> ValueType("Bytes", <<18, 52>> \o Zeros(31))],
      [t |-> PT("String"), v |-> ValueType("String", <<103, 97, 118, 195, 169>>)],
      [t |-> ArrayOf(PT("U32")), v |-> ValueType("Array", <<>>)],
      [t |-> ArrayOf(PT("Address")),
       v |-> ValueType("Array", <<ValueType("Address", Addr), ValueType("Address", Fill(20, 34))>>)],
      [t |-> ArrayOf(PT("Bytes")),
       v |-> ValueType("Array", <<ValueType("Bytes", <<1>>), ValueType("Bytes", <<>>)>>)],
      [t |-> ArrayOf(ArrayOf(PT("Address"))),
       v |-> ValueType("Array", <<ValueType("Array", <<ValueType("Address", Addr)>>),
                                  ValueType("Array", <<>>)>>)] >>

\* native values, each with its Rust type and the encoding of the value as the
\* one parameter of a method
NativeInputs ==
   << [ty |-> "u32", x |-> <<0, 69>>, data |-> W(69)],
      [ty |-> "u32", x |-> <<65535, 65535>>, data |-> Huge],
      [ty |-> "bool", x |-> TRUE, data |-> W(1)],
      [ty |-> "bool", x |-> FALSE, data |-> W(0)],
      [ty |-> "U256", x |-> BodyCtor, data |-> BodyCtor],
      [ty |-> "U256", x |-> Zeros(32), data |-> Zeros(32)],
      [ty |-> "U256", x |-> Fill(32, 255), data |-> Fill(32, 255)],
      [ty |-> "H256", x |-> Fill(32, 17), data |-> Fill(32, 17)],
      [ty |-> "H256", x |-> Zeros(32), data |-> Zeros(32)],
      [ty |-> "Address", x |-> Addr, data |-> A(17)],
      [ty |-> "Address", x |-> Zeros(20), data |-> Zeros(32)],
      [ty |-> "Vec<u8>", x |-> <<>>, data |-> W(32) \o W(0)],
      [ty |-> "Vec<u8>", x |-> <<18, 52>>, data |-> BodyBytes],
      [ty |-> "Vec<u8>", x |-> <<0>> \o Bytes31, data |-> W(32) \o W(32) \o <<0>> \o Bytes31] >>

\* lists of at most MaxValues values, as indices into TypedValues
TypedLists == SeqsUpTo(1..Len(TypedValues), MaxValues)

TypesOf(tvs) == [i \in 1..Len(tvs) |-> TypedValues[tvs[i]].t]

ValuesOf(tvs) == [i \in 1..Len(tvs) |-> TypedValues[tvs[i]].v]

(***************************************************************************)
(* The table as a state machine: Table::default / new / with_fallback,     *)
(* then any sequence of push, dispatch, fallback_dispatch and call.  The   *)
(* crate is single-threaded and synchronous: an operation runs to its end, *)
(* last records it (its inputs, the table it ran on, its result and the    *)
(* calls it made to its callback) and Return hands the result to the       *)
(* caller, after which the next operation may start.                       *)
(***************************************************************************)
\* no native conversion in progress
NoNative ==
    [pc |-> "idle", via |-> "none", ty |-> "bool", x |-> FALSE,
     val |-> Ok(ValueType("Bool", FALSE)), back |-> Ok(FALSE)]

codecVars == <<types, data, vals, out, word, wout, native>>

hashVars == <<named, keccak, hashed>>

CodecIdle ==
    /\ types = <<>>
    /\ data = <<>>
    /\ vals = <<>>
    /\ out = [pc |-> "idle", r |-> Ok(<<>>)]
    /\ word = Zeros(32)
    /\ wout = [fn |-> "idle", r |-> Ok(<<>>)]
    /\ native = NoNative

TableIdle ==
    /\ table = Table(<<>>, None)
    /\ last = NoOp
    /\ instance = DefaultInstance

HashIdle ==
    /\ named = [name |-> <<>>, signature |-> Signature(<<>>, None)]
    /\ keccak = [pc |-> "idle"]
    /\ hashed = None

Idle == last.op = "none"

Init ==
    /\ build \in Builds
    /\ mode = "table"
    /\ table \in {Table(<<>>, fb) : fb \in {None, Some(SigCtor)}}
    /\ last = NoOp
    /\ instance = DefaultInstance
    /\ CodecIdle
    /\ HashIdle

Push ==
    /\ Idle
    /\ Len(table.inner) < MaxTable
    /\ \E e \in Entries : table' = push(table, e)
    /\ UNCHANGED <<build, mode, last, instance, codecVars, hashVars>>

Dispatch ==
    /\ Idle
    /\ \E payload \in Payloads, d \in HandlerReturns :
        last' = [NoOp EXCEPT !.op = "dispatch", !.payload = payload, !.d = d, !.before = table,
                             !.result = dispatch(build, table, payload, d).result,
                             !.calls = dispatch(build, table, payload, d).calls]
    /\ UNCHANGED <<build, mode, table, instance, codecVars, hashVars>>

FallbackDispatch ==
    /\ Idle
    /\ \E payload \in Payloads \cup Bodies :
        last' = [NoOp EXCEPT !.op = "fallback_dispatch", !.payload = payload, !.before = table,
                             !.result = fallback_dispatch(build, table, payload).result,
                             !.calls = fallback_dispatch(build, table, payload).calls]
    /\ UNCHANGED <<build, mode, table, instance, codecVars, hashVars>>

Call ==
    /\ Idle
    /\ \E hash \in {Sel1, Sel2, Sel3}, args \in CallArgs, d \in Replies :
        last' = [NoOp EXCEPT !.op = "call", !.hash = hash, !.args = args, !.d = d, !.before = table,
                             !.result = call(build, table, hash, args, d).result,
                             !.calls = call(build, table, hash, args, d).calls]
    /\ UNCHANGED <<build, mode, table, instance, codecVars, hashVars>>

\* Endpoint::dispatch_ctor on the endpoint's table and instance
DispatchCtor ==
    /\ Idle
    /\ \E payload \in Bodies :
        /\ last' = [NoOp EXCEPT !.op = "dispatch_ctor", !.payload = payload, !.before = table,
                                !.inst = instance,
                                !.result = dispatch_ctor(build, table, instance, payload).result,
                                !.calls = dispatch_ctor(build, table, instance, payload).calls]
        /\ instance' = dispatch_ctor(build, table, instance, payload).instance
    /\ UNCHANGED <<build, mode, table, codecVars, hashVars>>

Return ==
    /\ ~Idle
    /\ last' = NoOp
    /\ UNCHANGED <<build, mode, table, instance, codecVars, hashVars>>

Next == Push \/ Dispatch \/ FallbackDispatch \/ Call \/ DispatchCtor \/ Return

Spec == Init /\ [][Next]_vars

(***************************************************************************)
(* Properties of the table.  `last` holds the operation that just ran:     *)
(* the table it ran on (before), its inputs, its result and the calls it   *)
(* made to its callback.                                                   *)
(***************************************************************************)
\* the entry dispatch and call select for a selector, Err when there is none
Selected(op, sel) == hash_signature(op.before, sel)

\* the body of a dispatch payload: payload[4..]
Body(op) == SubSeq(op.payload, 5, Len(op.payload))

\* C1: dispatch on a payload of at least 4 bytes whose big-endian selector is
\* the selector of a table entry, and whose body decodes against that entry's
\* parameter list, invokes the handler once with that selector and the decoded
\* values and returns encode_result of the handler's return value under that
\* entry's result type.
C1_DispatchRouting ==
    (/\ last.op = "dispatch"
     /\ Len(last.payload) >= 4
     /\ Selected(last, read_u32(last.payload)).st = "Ok"
     /\ decode(build, Selected(last, read_u32(last.payload)).val.signature.params,
               Body(last)).st = "Ok")
    => /\ last.calls =
            <<[method_id |-> <<last.payload[1] * 256 + last.payload[2],
                               last.payload[3] * 256 + last.payload[4]>>,
               args |-> decode(build,
                               Selected(last, read_u32(last.payload)).val.signature.params,
                               Body(last)).val]>>
       /\ last.result =
            encode_result(Selected(last, read_u32(last.payload)).val.signature, last.d)

\* a dispatch routed to the second entry of the table, whose handler's return
\* value came back encoded
C1_Witness ==
    /\ last.op = "dispatch"
    /\ last.payload = write_u32(Sel2) \o BodyBytes
    /\ Len(last.before.inner) = 2
    /\ last.before.inner[1].hash # Sel2
    /\ last.before.inner[2] = HashSignature(Sel2, SigGet)
    /\ last.calls = <<[method_id |-> Sel2, args |-> <<ValueType("Bytes", <<18, 52>>)>>]>>
    /\ last.result = Ok(W(7))

\* C2: dispatch on a payload shorter than 4 bytes returns NoLengthForSignature
\* whatever the table contains and never invokes the handler.
C2_ShortPayload ==
    (last.op = "dispatch" /\ Len(last.payload) < 4)
    => (last.result = Err("NoLengthForSignature") /\ last.calls = <<>>)

\* a 3-byte payload, the first bytes of a selector the full table holds
C2_Witness ==
    /\ last.op = "dispatch"
    /\ last.payload = <<205, 205, 119>>
    /\ Len(last.before.inner) = MaxTable
    /\ last.before.inner[1].hash = Sel1
    /\ last.result = Err("NoLengthForSignature")

\* C3: dispatch on a payload of at least 4 bytes whose big-endian selector is
\* the selector of no entry returns UnknownSignature, whatever the body and
\* whether or not a fallback is registered, and never invokes the handler.
C3_UnknownSelector ==
    (/\ last.op = "dispatch"
     /\ Len(last.payload) >= 4
     /\ \A i \in 1..Len(last.before.inner) :
            last.before.inner[i].hash # read_u32(last.payload))
    => (last.result = Err("UnknownSignature") /\ last.calls = <<>>)

\* an unknown selector before a body the fallback signature would decode, on a
\* non-empty table with a fallback
C3_Witness ==
    /\ last.op = "dispatch"
    /\ last.payload = write_u32(Sel3) \o BodyCtor
    /\ last.before.fallback = Some(SigCtor)
    /\ Len(last.before.inner) > 0
    /\ last.result = Err("UnknownSignature")

\* an unknown selector before a body of 65 bytes, which no decode accepts
C3_WitnessMalformed ==
    /\ last.op = "dispatch"
    /\ last.payload = write_u32(Sel3) \o BodyBaz \o <<0>>
    /\ last.result = Err("UnknownSignature")

\* C4: when the selector is found but payload[4..] does not decode against the
\* entry's parameter list, dispatch returns the decode error to its caller,
\* does not abort and does not invoke the handler.
C4_PropagatesDecodeError ==
    (/\ last.op = "dispatch"
     /\ Len(last.payload) >= 4
     /\ Selected(last, read_u32(last.payload)).st = "Ok"
     /\ decode(build, Selected(last, read_u32(last.payload)).val.signature.params,
               Body(last)).st # "Ok")
    => (last.result = DecodeError /\ last.calls = <<>>)

\* C5: fallback_dispatch without a fallback signature returns NoFallback and
\* never invokes the handler; with one, it decodes the whole payload, from its
\* first byte, against the fallback's parameter list, invokes the handler once
\* with the decoded values and returns Ok with no bytes.
C5_FallbackDispatch ==
    last.op = "fallback_dispatch"
    => /\ ~last.before.fallback.some
            => (last.result = Err("NoFallback") /\ last.calls = <<>>)
       /\ (/\ last.before.fallback.some
           /\ decode(build, last.before.fallback.val.params, last.payload).st = "Ok")
            => /\ last.calls =
                    <<[args |-> decode(build, last.before.fallback.val.params,
                                       last.payload).val]>>
               /\ last.result = Ok(<<>>)

\* the constructor of the erc20 test: one U256 word, handed to the handler
C5_Witness ==
    /\ last.op = "fallback_dispatch"
    /\ last.before.fallback = Some(SigCtor)
    /\ last.payload = BodyCtor
    /\ last.calls = <<[args |-> <<ValueType("U256", BodyCtor)>>]>>
    /\ last.result = Ok(<<>>)

\* fallback_dispatch on a table without a fallback
C5_WitnessNoFallback ==
    /\ last.op = "fallback_dispatch"
    /\ ~last.before.fallback.some
    /\ last.payload = BodyCtor
    /\ last.result = Err("NoFallback")

\* C6: call with a selector of the table invokes the transport once with the
\* four selector bytes, most significant first, followed by
\* encode_invoke(values), and returns decode_result(reply), or absent when the
\* transport returns no reply; with a selector not in the table it returns
\* UnknownSignature and never invokes the transport.
C6_Call ==
    last.op = "call"
    => /\ (/\ Selected(last, last.hash).st = "Ok"
           /\ encode_invoke(Selected(last, last.hash).val.signature, last.args).st = "Ok")
            => /\ last.calls =
                    << <<last.hash[1] \div 256, last.hash[1] % 256,
                         last.hash[2] \div 256, last.hash[2] % 256>>
                       \o encode_invoke(Selected(last, last.hash).val.signature,
                                        last.args).val >>
               /\ last.result =
                    IF last.d.some
                    THEN decode_result(build, Selected(last, last.hash).val.signature,
                                       last.d.val)
                    ELSE Ok(None)
       /\ Selected(last, last.hash).st # "Ok"
            => (last.result = Err("UnknownSignature") /\ last.calls = <<>>)

\* a call of get(bytes) whose reply decodes to the U32 5
C6_Witness ==
    /\ last.op = "call"
    /\ last.hash = Sel1
    /\ Selected(last, Sel1) = Ok(HashSignature(Sel1, SigGet))
    /\ last.calls = <<<<205, 205, 119, 192>> \o BodyBytes>>
    /\ last.d = Some(W(5))
    /\ last.result = Ok(Some(ValueType("U32", <<0, 5>>)))

\* a call with a selector the non-empty table does not hold
C6_WitnessUnknown ==
    /\ last.op = "call"
    /\ Len(last.before.inner) > 0
    /\ last.hash = Sel3
    /\ last.result = Err("UnknownSignature")

\* C17: dispatch_ctor aborts when the payload does not decode against the
\* ctor signature (or there is none): the constructor is not invoked and the
\* instance is left as it was; on a payload that decodes the constructor is
\* invoked once with the decoded arguments, and total_supply is the word.
C17_DispatchCtor ==
    last.op = "dispatch_ctor"
    => IF /\ last.before.fallback.some
          /\ decode(build, last.before.fallback.val.params, last.payload).st = "Ok"
       THEN /\ last.result = Ok(<<>>)
            /\ last.calls =
                <<[args |-> decode(build, last.before.fallback.val.params, last.payload).val]>>
            /\ instance.total_supply = SubSeq(last.payload, 1, 32)
       ELSE /\ last.result = Panic
            /\ last.calls = <<>>
            /\ instance = last.inst

\* the empty payload after a constructor call that set total_supply to 1 << 248
C17_Witness ==
    /\ last.op = "dispatch_ctor"
    /\ last.before.fallback = Some(SigCtor)
    /\ last.payload = <<>>
    /\ last.inst.total_supply = BodyCtor
    /\ last.result = Panic
    /\ instance.total_supply = BodyCtor

\* the constructor call of the ctor test: total_supply becomes 1 << 248
C17_WitnessCtor ==
    /\ last.op = "dispatch_ctor"
    /\ last.payload = BodyCtor
    /\ last.inst = DefaultInstance
    /\ last.calls = <<[args |-> <<ValueType("U256", BodyCtor)>>]>>
    /\ instance.total_supply = <<1>> \o Zeros(31)

\* the earliest-inserted entry of the table with this selector
Earliest(tbl, sel) ==
    tbl.inner[CHOOSE i \in 1..Len(tbl.inner) :
                /\ tbl.inner[i].hash = sel
                /\ \A j \in 1..Len(tbl.inner) : tbl.inner[j].hash = sel => i <= j]

Holds(tbl, sel) == \E i \in 1..Len(tbl.inner) : tbl.inner[i].hash = sel

\* the table with only the earliest entry of this selector
OnlyEarliest(tbl, sel) ==
    Table(IF Holds(tbl, sel) THEN <<Earliest(tbl, sel)>> ELSE <<>>, tbl.fallback)

\* C18: a push appends the entry after the existing ones, which stay as they
\* were, so a lookup that succeeded before the push returns the same entry
\* after it; hash_signature, dispatch and call select the earliest-inserted
\* entry with the selector; dispatch, fallback_dispatch, call (and
\* dispatch_ctor) leave the table unchanged.
C18_LookupOrder ==
    [][/\ table' # table
            => /\ Len(table'.inner) = Len(table.inner) + 1
               /\ SubSeq(table'.inner, 1, Len(table.inner)) = table.inner
               /\ table'.fallback = table.fallback
               /\ \A sel \in {Sel1, Sel2, Sel3} :
                    hash_signature(table, sel).st = "Ok"
                        => hash_signature(table', sel) = hash_signature(table, sel)
       /\ \A sel \in {Sel1, Sel2, Sel3} :
            hash_signature(table', sel) =
                IF Holds(table', sel) THEN Ok(Earliest(table', sel))
                ELSE Err("UnknownSignature")
       /\ last'.op # "none" => table' = table /\ last'.before = table
       /\ (last'.op = "dispatch" /\ Len(last'.payload) >= 4)
            => /\ last'.result =
                    dispatch(build,
                             OnlyEarliest(table, read_u32(SubSeq(last'.payload, 1, 4))),
                             last'.payload, last'.d).result
               /\ last'.calls =
                    dispatch(build,
                             OnlyEarliest(table, read_u32(SubSeq(last'.payload, 1, 4))),
                             last'.payload, last'.d).calls
       /\ last'.op = "call"
            => /\ last'.result =
                    call(build, OnlyEarliest(table, last'.hash), last'.hash, last'.args,
                         last'.d).result
               /\ last'.calls =
                    call(build, OnlyEarliest(table, last'.hash), last'.hash, last'.args,
                         last'.d).calls
      ]_vars

\* a dispatch on a table with two entries of the selector 0xcdcd77c0: the body
\* is decoded against the entry pushed first
C18_Witness ==
    /\ last.op = "dispatch"
    /\ table.inner = <<HashSignature(Sel1, SigBaz), HashSignature(Sel1, SigGet)>>
    /\ last.before = table
    /\ last.payload = write_u32(Sel1) \o BodyBaz
    /\ last.calls = <<[method_id |-> Sel1,
                       args |-> <<ValueType("U32", <<0, 69>>), ValueType("Bool", TRUE)>>]>>

(***************************************************************************)
(* The codec as a state machine.  A run is one of: a scalar conversion of  *)
(* `word` (mode "word"), decode(types, data) (mode "decode"), or encode of *)
(* `vals` followed by decode of the bytes against their types (mode      *)
(* "roundtrip").                                                           *)
(***************************************************************************)
Pending == [pc |-> "decode", r |-> Ok(<<>>)]

InitWord ==
    /\ mode = "word"
    /\ word \in Words
    /\ wout = [fn |-> "pending", r |-> Ok(<<>>)]
    /\ types = <<>> /\ data = <<>> /\ vals = <<>>
    /\ out = [pc |-> "idle", r |-> Ok(<<>>)]

InitDecode ==
    /\ mode = "decode"
    /\ \/ types \in TypeLists /\ data \in Datas
       \/ \E x \in OffsetInputs : types = x.types /\ data = x.data
    /\ vals = <<>>
    /\ out = Pending
    /\ word = Zeros(32)
    /\ wout = [fn |-> "idle", r |-> Ok(<<>>)]

InitRoundTrip ==
    /\ mode = "roundtrip"
    /\ \E tvs \in TypedLists : types = TypesOf(tvs) /\ vals = ValuesOf(tvs)
    /\ data = <<>>
    /\ out = [pc |-> "encode", r |-> Ok(<<>>)]
    /\ word = Zeros(32)
    /\ wout = [fn |-> "idle", r |-> Ok(<<>>)]

\* a native value, and its encoding under the ParamType of its Rust type
InitNative ==
    /\ mode = "native"
    /\ \E i \in 1..Len(NativeInputs) :
        /\ native = [NoNative EXCEPT !.pc = "new", !.ty = NativeInputs[i].ty,
                                     !.x = NativeInputs[i].x]
        /\ types = <<ty_to_param_type(NativeInputs[i].ty)>>
        /\ data = NativeInputs[i].data
    /\ vals = <<>>
    /\ out = [pc |-> "idle", r |-> Ok(<<>>)]
    /\ word = Zeros(32)
    /\ wout = [fn |-> "idle", r |-> Ok(<<>>)]

InitCodec ==
    /\ build \in Builds
    /\ TableIdle
    /\ HashIdle
    /\ \/ native = NoNative /\ (InitWord \/ InitDecode \/ InitRoundTrip)
       \/ InitNative

Scalar(fn, r) ==
    /\ wout.fn = "pending"
    /\ wout' = [fn |-> fn, r |-> r]
    /\ UNCHANGED <<build, mode, table, last, instance, types, data, vals, out, word, native, hashVars>>

DoAsU32 == Scalar("as_u32", as_u32(word))

DoAsI32 == Scalar("as_i32", as_i32(build, word))

DoAsU64 == Scalar("as_u64", as_u64(word))

DoAsI64 == Scalar("as_i64", as_i64(build, word))

DoAsBool == Scalar("as_bool", as_bool(word))

Encode ==
    /\ out.pc = "encode"
    /\ data' = encode(vals)
    /\ out' = Pending
    /\ UNCHANGED <<build, mode, table, last, instance, types, vals, word, wout, native, hashVars>>

Decode ==
    /\ out.pc = "decode"
    /\ out' = [pc |-> "done", r |-> decode(build, types, data)]
    /\ UNCHANGED <<build, mode, table, last, instance, types, data, vals, word, wout, native, hashVars>>

\* x.into(): the ValueType of the native value
IntoValue ==
    /\ native.pc = "new"
    /\ native' = [native EXCEPT !.pc = "value", !.via = "into",
                                !.val = Ok(into_value(native.ty, native.x))]
    /\ UNCHANGED <<build, mode, table, last, instance, types, data, vals, out, word, wout,
                   hashVars>>

\* the ValueType the decoder produces for the argument of the method
DecodeValue ==
    /\ native.pc = "new"
    /\ native' = [native EXCEPT !.pc = "value", !.via = "decode",
                                !.val = IF decode(build, types, data).st = "Ok"
                                        THEN Ok(decode(build, types, data).val[1])
                                        ELSE decode(build, types, data)]
    /\ UNCHANGED <<build, mode, table, last, instance, types, data, vals, out, word, wout,
                   hashVars>>

\* val.into(): the ValueType back into the native type
FromValue ==
    /\ native.pc = "value"
    /\ native.val.st = "Ok"
    /\ native' = [native EXCEPT !.pc = "done", !.back = from_value(native.ty, native.val.val)]
    /\ UNCHANGED <<build, mode, table, last, instance, types, data, vals, out, word, wout,
                   hashVars>>

NextCodec ==
    \/ DoAsU32 \/ DoAsI32 \/ DoAsU64 \/ DoAsI64 \/ DoAsBool \/ Encode \/ Decode
    \/ IntoValue \/ DecodeValue \/ FromValue

SpecCodec == InitCodec /\ [][NextCodec]_vars

(***************************************************************************)
(* The selector derivation as a state machine: NamedSignature::hash builds *)
(* the signature string and feeds it to the sponge, which absorbs it block *)
(* by block, 24 rounds after each block; into() reads the selector off the *)
(* digest.                                                                 *)
(***************************************************************************)
InitSelector ==
    /\ build = [overflow_checks |-> FALSE, usize_bits |-> 32]
    /\ mode = "selector"
    /\ TableIdle
    /\ CodecIdle
    /\ named \in NamedSignatures
    /\ keccak = [pc |-> "new"]
    /\ hashed = None

\* hash: the string is built and handed to keccak.update
Hash ==
    /\ keccak.pc = "new"
    /\ keccak' = [pc |-> "absorb", input |-> signature_str(named),
                  buffer |-> KeccakPad(signature_str(named)), st |-> Zeros(1600), rnd |-> 0]
    /\ UNCHANGED <<build, mode, table, last, instance, codecVars, named, hashed>>

\* the next block of the padded input goes into the state
Absorb ==
    /\ keccak.pc = "absorb"
    /\ keccak' = [keccak EXCEPT !.pc = "permute",
                                !.st = KeccakAbsorb(keccak.st, SubSeq(keccak.buffer, 1, Rate)),
                                !.buffer = SubSeq(keccak.buffer, Rate + 1, Len(keccak.buffer)),
                                !.rnd = 0]
    /\ UNCHANGED <<build, mode, table, last, instance, codecVars, named, hashed>>

\* one round of the permutation
Permute ==
    /\ keccak.pc = "permute"
    /\ keccak' = [keccak EXCEPT !.st = KeccakRound(keccak.st, keccak.rnd + 1),
                                !.rnd = keccak.rnd + 1,
                                !.pc = IF keccak.rnd + 1 < Rounds THEN "permute"
                                       ELSE IF keccak.buffer # <<>> THEN "absorb"
                                       ELSE "finalize"]
    /\ UNCHANGED <<build, mode, table, last, instance, codecVars, named, hashed>>

\* keccak.finalize and HashSignature::from
Into ==
    /\ keccak.pc = "finalize"
    /\ hashed' = Some(IntoHashSignature(KeccakSqueeze(keccak.st), named.signature))
    /\ keccak' = [keccak EXCEPT !.pc = "done"]
    /\ UNCHANGED <<build, mode, table, last, instance, codecVars, named>>

NextSelector == Hash \/ Absorb \/ Permute \/ Into

SpecSelector == InitSelector /\ [][NextSelector]_vars

(***************************************************************************)
(* Properties of the selector derivation.                                  *)
(***************************************************************************)
\* the strings of a list joined by single commas
RECURSIVE Join(_)
Join(strs) ==
    IF strs = <<>> THEN <<>>
    ELSE IF Len(strs) = 1 THEN strs[1]
    ELSE strs[1] \o <<44>> \o Join(Tail(strs))

\* name "(" members joined by commas ")"
Canonical(n) ==
    n.name \o <<40>> \o Join([i \in 1..Len(n.signature.params) |-> to_member(n.signature.params[i])])
        \o <<41>>

\* keccak-256 known answers: the first four bytes of the digest of a string,
\* as a big-endian u32
KnownSelectors ==
    <<
       \* baz(uint32,bool) -> 0xcdcd77c0
       [str |-> <<98, 97, 122, 40, 117, 105, 110, 116, 51, 50, 44, 98, 111, 111, 108, 41>>,
        selector |-> <<52685, 30656>>],
       \* sam(bytes,bool,uint256[]) -> 0xa5643bf2
       [str |-> <<115, 97, 109, 40, 98, 121, 116, 101, 115, 44, 98, 111, 111, 108, 44, 117, 105, 110, 116, 50, 53, 54, 91, 93, 41>>,
        selector |-> <<42340, 15346>>],
       \* balanceOf(address) -> 0x70a08231
       [str |-> <<98, 97, 108, 97, 110, 99, 101, 79, 102, 40, 97, 100, 100, 114, 101, 115, 115, 41>>,
        selector |-> <<28832, 33329>>],
       \* totalSupply() -> 0x18160ddd
       [str |-> <<116, 111, 116, 97, 108, 83, 117, 112, 112, 108, 121, 40, 41>>,
        selector |-> <<6166, 3549>>],
       \* transfer(address,uint256) -> 0xa9059cbb
       [str |-> <<116, 114, 97, 110, 115, 102, 101, 114, 40, 97, 100, 100, 114, 101, 115, 115, 44, 117, 105, 110, 116, 50, 53, 54, 41>>,
        selector |-> <<43269, 40123>>],
       \* f(int32,uint64,int64,string,address[][]) -> 0xea2a1d33
       [str |-> <<102, 40, 105, 110, 116, 51, 50, 44, 117, 105, 110, 116, 54, 52, 44, 105, 110, 116, 54, 52, 44, 115, 116, 114, 105, 110, 103, 44, 97, 100, 100, 114, 101, 115, 115, 91, 93, 91, 93, 41>>,
        selector |-> <<59946, 7475>>],
       \* 'a' x 140 followed by () -> 0x9e3a5abd
       [str |-> NameLong \o <<40, 41>>,
        selector |-> <<40506, 23229>>] >>

\* C16: the string hashed for a NamedSignature is its name, "(", the member
\* strings of its parameters joined by single commas, ")", without its return
\* type, and the selector is the big-endian u32 of the first 4 bytes of
\* keccak-256 of that string (baz(uint32,bool) -> 0xcdcd77c0).
C16_Selector ==
    keccak.pc = "done"
    => /\ keccak.input = Canonical(named)
       /\ hashed.some
       /\ hashed.val.signature = named.signature
       /\ \E k \in 1..Len(KnownSelectors) :
            /\ KnownSelectors[k].str = keccak.input
            /\ KnownSelectors[k].selector = hashed.val.hash

\* the selector of baz(uint32,bool)
C16_Witness ==
    /\ keccak.pc = "done"
    /\ named = NamedSignature(NameBaz, SigBaz)
    /\ hashed = Some(HashSignature(Sel1, SigBaz))

(***************************************************************************)
(* Properties of the codec.                                                *)
(***************************************************************************)
\* bytes lo..hi (0-based, hi excluded) of a word are all zero
ZeroBytes(w, lo, hi) == \A i \in (lo + 1)..hi : w[i] = 0

\* word k (0-based) of the input
DataWord(k) == SubSeq(data, 32 * k + 1, 32 * k + 32)

\* the big-endian u32 in the low 4 bytes of a word, as limbs
Low4(w) == <<w[29] * 256 + w[30], w[31] * 256 + w[32]>>

\* the big-endian u64 in the low 8 bytes of a word, as limbs
Low8(w) ==
    <<w[25] * 256 + w[26], w[27] * 256 + w[28], w[29] * 256 + w[30], w[31] * 256 + w[32]>>

\* decode of one parameter has finished on an input of whole words, one at least
DecodedOne ==
    /\ mode = "decode"
    /\ out.pc = "done"
    /\ Len(types) = 1
    /\ Len(data) % 32 = 0
    /\ Len(data) >= 32

\* C7: for every well-typed value list V with parameter types P,
\* decode(P, encode(V)) succeeds and equals V.
C7_RoundTrip ==
    (mode = "roundtrip" /\ out.pc = "done") => out.r = Ok(vals)

\* C8: decode returns a decode error, and no values, for every input whose
\* length is not a multiple of 32, whatever the type list, the empty one
\* included.
C8_Misaligned ==
    (out.pc = "done" /\ Len(data) % 32 # 0) => out.r = DecodeError

\* the empty type list on an input of 33 bytes
C8_Witness ==
    /\ mode = "decode"
    /\ out.pc = "done"
    /\ types = <<>>
    /\ Len(data) = 33
    /\ out.r = DecodeError

\* C9: a word is accepted as U32 iff its bytes 0..28 are zero and as U64 iff
\* its bytes 0..24 are zero; the value is then the big-endian integer of its
\* low 4 (8) bytes, and otherwise the result is a decode error.  That holds of
\* the conversions, of decode of a U32 or U64 parameter, and of the offset
\* word and the length word of a dynamic parameter.
C9_Unsigned ==
    /\ wout.fn = "as_u32"
        => wout.r = IF ZeroBytes(word, 0, 28) THEN Ok(Low4(word)) ELSE DecodeError
    /\ wout.fn = "as_u64"
        => wout.r = IF ZeroBytes(word, 0, 24) THEN Ok(Low8(word)) ELSE DecodeError
    /\ (DecodedOne /\ types[1].tag = "U32")
        => out.r = IF ZeroBytes(DataWord(0), 0, 28)
                   THEN Ok(<<ValueType("U32", Low4(DataWord(0)))>>) ELSE DecodeError
    /\ (DecodedOne /\ types[1].tag = "U64")
        => out.r = IF ZeroBytes(DataWord(0), 0, 24)
                   THEN Ok(<<ValueType("U64", Low8(DataWord(0)))>>) ELSE DecodeError
    /\ (DecodedOne /\ types[1].tag \in {"Bytes", "String", "Array"})
        => /\ ~ZeroBytes(DataWord(0), 0, 28) => out.r = DecodeError
           /\ (/\ ZeroBytes(DataWord(0), 0, 28)
               /\ Low4(DataWord(0))[1] = 0
               /\ Low4(DataWord(0))[2] \div 32 < Len(data) \div 32
               /\ ~ZeroBytes(DataWord(Low4(DataWord(0))[2] \div 32), 0, 28))
                => out.r = DecodeError

\* a word accepted as U32 with the top bit of its low 4 bytes set
C9_Witness ==
    /\ wout.fn = "as_u32"
    /\ word = WithByte(Zeros(32), 28, 128)
    /\ wout.r = Ok(<<32768, 0>>)

\* a Bytes parameter whose length word has a non-zero byte 27
C9_WitnessLength ==
    /\ DecodedOne
    /\ types = <<PT("Bytes")>>
    /\ data = W(32) \o WithByte(W(32), 27, 1)
    /\ out.r = DecodeError

\* C10: a word decodes to false iff it is 31 zero bytes and 0x00, to true iff
\* it is 31 zero bytes and 0x01, and every other word is a decode error.
C10_Bool ==
    wout.fn = "as_bool"
    => wout.r = IF word = Zeros(32) THEN Ok(FALSE)
                ELSE IF word = Zeros(31) \o <<1>> THEN Ok(TRUE)
                ELSE DecodeError

\* bytes lo..hi (0-based, hi excluded) of a word are all 0xff
FFBytes(w, lo, hi) == \A i \in (lo + 1)..hi : w[i] = 255

\* the word is the sign extension of the i32 in its low 4 bytes: pad_i32 of it
SignExtended32(w) == w = pad_i32(AsI32(Low4(w)))

\* the word is the sign extension of the i64 in its low 8 bytes
SignExtended64(w) ==
    \/ ZeroBytes(w, 0, 24) /\ w[25] < 128
    \/ FFBytes(w, 0, 24) /\ w[25] >= 128

\* C11: decoding the word pad_i32(v) under I32 yields v, for every i32 v, the
\* negative ones and the minimum included, without error or overflow; and
\* decoding the sign extension of an i64 v under I64 yields v.
C11_SignedInverse ==
    /\ (wout.fn = "as_i32" /\ SignExtended32(word)) => wout.r = Ok(AsI32(Low4(word)))
    /\ (wout.fn = "as_i64" /\ SignExtended64(word)) => wout.r = Ok(Low8(word))

\* C12: a word whose bytes 0..28 are neither all 0x00 nor all 0xff is a decode
\* error under I32, and so is under I64 a word whose bytes 0..24 are neither.
C12_SignedRejection ==
    /\ (wout.fn = "as_i32" /\ ~ZeroBytes(word, 0, 28) /\ ~FFBytes(word, 0, 28))
        => wout.r = DecodeError
    /\ (wout.fn = "as_i64" /\ ~ZeroBytes(word, 0, 24) /\ ~FFBytes(word, 0, 24))
        => wout.r = DecodeError

\* C13: against the empty type list the empty input decodes to no values and
\* every input of one or more words is a decode error.
C13_EmptyTypes ==
    (mode = "decode" /\ out.pc = "done" /\ types = <<>>)
    => out.r = IF data = <<>> THEN Ok(<<>>) ELSE DecodeError

\* the number of words of the input
NWords == Len(data) \div 32

\* a u32 (as limbs) divided by 32, and divided by 32 rounded up
Div32(u) == u[1] * 2048 + (u[2] \div 32)

CeilDiv32(u) == u[1] * 2048 + ((u[2] + 31) \div 32)

\* n + u > m for small naturals n, m and a u32 u
Exceeds(n, u, m) == u[1] > 0 \/ n + u[2] > m

\* decode of a single dynamic parameter has finished; its offset word is a
\* u32 whose target, the length word, is a u32 inside the input
DecodedDynamic ==
    /\ DecodedOne
    /\ types[1].tag \in {"Bytes", "String", "Array"}
    /\ ZeroBytes(DataWord(0), 0, 28)
    /\ Div32(Low4(DataWord(0))) < NWords
    /\ ZeroBytes(DataWord(Div32(Low4(DataWord(0)))), 0, 28)

\* the length a dynamic parameter declares, and the index of its length word
DeclaredLen == Low4(DataWord(Div32(Low4(DataWord(0)))))

LenWordAt == Div32(Low4(DataWord(0)))

\* C14: on a word-aligned input decode returns a decode error, and neither
\* aborts nor returns a shortened value, when a head word, the target of an
\* offset, one of the ceil(len/32) payload words of a Bytes or String, or one
\* of the len elements of an Array lies beyond the last input word.
C14_OutOfRange ==
    (mode = "decode" /\ out.pc = "done" /\ Len(data) % 32 = 0)
    => /\ Len(types) > NWords => out.r = DecodeError
       /\ (/\ DecodedOne
           /\ types[1].tag \in {"Bytes", "String", "Array"}
           /\ ZeroBytes(DataWord(0), 0, 28)
           /\ Div32(Low4(DataWord(0))) >= NWords)
            => out.r = DecodeError
       /\ (/\ DecodedDynamic
           /\ types[1].tag \in {"Bytes", "String"}
           /\ LenWordAt + 1 + CeilDiv32(DeclaredLen) > NWords)
            => out.r = DecodeError
       /\ (/\ DecodedDynamic
           /\ types[1].tag = "Array"
           /\ Exceeds(LenWordAt + 1, DeclaredLen, NWords))
            => out.r = DecodeError

\* the variant of a value is the one its ParamType declares, recursively
RECURSIVE Conforms(_, _)
Conforms(v, t) ==
    /\ v.tag = t.tag
    /\ t.tag = "Array" => \A i \in 1..Len(v.v) : Conforms(v.v[i], t.inner)

\* C15: when decode(P, data) succeeds its result has one value for each
\* ParamType of P and the variant of value i is the one P[i] declares (H256
\* for H256), for the elements of an Array recursively.
C15_TypeConformance ==
    (out.pc = "done" /\ out.r.st = "Ok")
    => /\ Len(out.r.val) = Len(types)
       /\ \A i \in 1..Len(types) : Conforms(out.r.val[i], types[i])

\* the value marking an offset or a length that leads out of the input
Unresolved == [tag |-> "Unresolved", v |-> <<>>]

RECURSIVE Resolved(_, _)

\* the dynamic value of type ty whose length word n is input word L: the
\* elements of an array have their head words behind L, the bytes are the ones
\* take_bytes takes behind L
ResolvedLen(ty, L, n) ==
    IF ty.tag = "Array"
    THEN IF n[1] > 0 \/ n[2] > NWords THEN Unresolved
         ELSE ValueType("Array", [i \in 1..n[2] |-> Resolved(ty.inner, L + i)])
    ELSE IF take_bytes(build, slice_data(data).val, L + 1, n).st # "Ok" THEN Unresolved
    ELSE ValueType(ty.tag, take_bytes(build, slice_data(data).val, L + 1, n).val.bytes)

\* the dynamic value of type ty whose offset word selects input word L
ResolvedAt(ty, L) ==
    IF L >= NWords THEN Unresolved
    ELSE IF ~ZeroBytes(DataWord(L), 0, 28) THEN Unresolved
    ELSE ResolvedLen(ty, L, Low4(DataWord(L)))

\* the value of type ty whose head word is input word cur: a dynamic value is
\* looked up at the word its offset word, divided by 32, selects counting from
\* the start of the input, and element i of an array with length word L has
\* its head word at L + i
Resolved(ty, cur) ==
    IF cur >= NWords THEN Unresolved
    ELSE IF ty.tag \notin {"Bytes", "String", "Array"}
    THEN IF decode_param(build, ty, slice_data(data).val, cur).st = "Ok"
         THEN decode_param(build, ty, slice_data(data).val, cur).val.token
         ELSE Unresolved
    ELSE IF ~ZeroBytes(DataWord(cur), 0, 28) THEN Unresolved
    ELSE ResolvedAt(ty, Div32(Low4(DataWord(cur))))

\* C19: every value of a decoded list is the one found by taking the head
\* word of parameter k at input word k - 1 (the cursor moves one word per
\* value, dynamic or not) and every offset word, at the top level and inside
\* arrays, as 32 times an index counted from the start of the whole input.
C19_AbsoluteOffsets ==
    (mode = "decode" /\ out.pc = "done" /\ out.r.st = "Ok")
    => \A k \in 1..Len(types) : out.r.val[k] = Resolved(types[k], k - 1)

\* the test decode_dynamic_array_of_dynamic_arrays: the inner offsets 0x80 and
\* 0xc0 select the input words 4 and 6
C19_Witness ==
    /\ mode = "decode" /\ out.pc = "done"
    /\ types = <<ArrayOf(ArrayOf(PT("Address")))>>
    /\ data = Flatten(<<W(32), W(2), W(128), W(192), W(1), A(17), W(1), A(34)>>)
    /\ out.r = Ok(<<ValueType("Array",
                    <<ValueType("Array", <<ValueType("Address", Fill(20, 17))>>),
                      ValueType("Array", <<ValueType("Address", Fill(20, 34))>>)>>)>>)

\* the test decode_two_bytes: the second head word is input word 1 although
\* the first value takes two words of the tail
C19_WitnessTwoBytes ==
    /\ mode = "decode" /\ out.pc = "done"
    /\ types = <<PT("Bytes"), PT("Bytes")>>
    /\ data = Flatten(<<W(64), W(128), W(31), Bytes31 \o <<0>>, W(32), <<0>> \o Bytes31>>)
    /\ out.r = Ok(<<ValueType("Bytes", Bytes31), ValueType("Bytes", <<0>> \o Bytes31)>>)

\* C20: a native value converted into a ValueType and back into its type is
\* the value again, and the ValueType the decoder produces for the ParamType
\* of a native type converts back into that type; neither aborts.
C20_NativeRoundTrip ==
    /\ (native.pc = "value" /\ native.via = "decode") => native.val.st = "Ok"
    /\ native.pc = "done" => native.back = Ok(native.x)

====
